---- MODULE Spec2Model ----
(***************************************************************************)
(* A model of search_products.py: the command surface (main), the search  *)
(* pipeline (search_products, search_products_direct,                     *)
(* apply_rapidfuzz_scoring) and the helpers it imports from utils and     *)
(* pinecone_integration (format_search_string, compute_given_name,        *)
(* extract_product_names, compute_rapidfuzz_score, search_pinecone).      *)
(*                                                                         *)
(* Strings are sequences of one-character strings, so that the            *)
(* normalizer's transformations are computed character by character.      *)
(***************************************************************************)
EXTENDS Integers, Sequences, FiniteSets, TLC

VARIABLES
    \* ---- the normalizer harness (format_search_string as a pure function)
    normPc,          \* "idle" | "ready" | "normalized" | "renormalized"
    normIn,          \* the raw string
    normOut,         \* format_search_string(normIn)
    normOut2,        \* format_search_string(normOut)
    \* ---- the process environment
    mongo_uri,       \* os.getenv('MONGO_URI'): None, "" or a URI
    pymongoInstalled,\* whether `from pymongo import ...` succeeds
    \* ---- main / search_products
    pc,              \* position of main / search_products
    search_string,   \* args.search_string
    exitCode,        \* the process exit status, once main has ended
    calls,           \* backend interactions issued so far, in order
    clientCreated,   \* MongoClient(mongo_uri) returned a client
    clientClosed,    \* client.close() was called
    formatted_string,
    heap,            \* the record dicts, by identity (position in the backend's answer)
    direct_results,  \* list of record identities
    direct_results_with_rapidfuzz, \* list of record identities
    pinecone_results,\* list of opaque vector hits
    results,         \* the value search_products returned (<<>> before it returns)
    \* ---- history of what the collaborators did on this run
    backendDocs,     \* the records exactly as the lexical backend returned them
    connectOutcome,  \* how the connection attempt went ("none" before it)
    lexicalFailed,   \* collection.find raised
    vectorFailed,    \* the vector backend failed inside search_pinecone
    errorCause       \* why search_products returned an error value

normVars == <<normPc, normIn, normOut, normOut2>>
envVars == <<mongo_uri, pymongoInstalled>>
runVars == <<pc, search_string, exitCode, calls, clientCreated, clientClosed,
             formatted_string, heap, direct_results,
             direct_results_with_rapidfuzz, pinecone_results, results>>
histVars == <<backendDocs, connectOutcome, lexicalFailed, vectorFailed, errorCause>>
vars == <<normVars, envVars, runVars, histVars>>

(***************************************************************************)
(* Characters                                                              *)
(***************************************************************************)
LowerSeq == <<"a","b","c","d","e","f","g","h","i","j","k","l","m",
              "n","o","p","q","r","s","t","u","v","w","x","y","z">>
UpperSeq == <<"A","B","C","D","E","F","G","H","I","J","K","L","M",
              "N","O","P","Q","R","S","T","U","V","W","X","Y","Z">>
DigitChars == {"0","1","2","3","4","5","6","7","8","9"}
SeparatorChars == {",", ";"}
SpaceChars == {" "}

Range(s) == {s[i] : i \in DOMAIN s}
IsLower(c) == c \in Range(LowerSeq)
IsUpper(c) == c \in Range(UpperSeq)
IsLetter(c) == IsLower(c) \/ IsUpper(c)
IsDigit(c) == c \in DigitChars
IsSpace(c) == c \in SpaceChars

ToLowerChar(c) ==
    IF IsUpper(c) THEN LowerSeq[CHOOSE i \in DOMAIN UpperSeq : UpperSeq[i] = c] ELSE c

(***************************************************************************)
(* Query Normalizer: format_search_string                                  *)
(***************************************************************************)
\* s with a space inserted after every position in `after`
RECURSIVE InsertSpacesAfter(_, _, _)
InsertSpacesAfter(s, after, i) ==
    IF i > Len(s) THEN <<>>
    ELSE (IF i \in after THEN <<s[i], " ">> ELSE <<s[i]>>)
         \o InsertSpacesAfter(s, after, i + 1)

\* 1. a lowercase letter immediately followed by an uppercase letter becomes two words
split_camel_case(s) ==
    InsertSpacesAfter(s, {i \in 1..(Len(s) - 1) : IsLower(s[i]) /\ IsUpper(s[i + 1])}, 1)

\* 2. a space between a letter and an adjacent digit, in both directions
split_letters_digits(s) ==
    LET t == InsertSpacesAfter(s,
                 {i \in 1..(Len(s) - 1) : IsLetter(s[i]) /\ IsDigit(s[i + 1])}, 1)
    IN  InsertSpacesAfter(t,
                 {i \in 1..(Len(t) - 1) : IsDigit(t[i]) /\ IsLetter(t[i + 1])}, 1)

\* a plausible variant: commas and semicolons become spaces
replace_separators(s) ==
    [i \in DOMAIN s |-> IF s[i] \in SeparatorChars THEN " " ELSE s[i]]

\* 3. commas and semicolons are removed entirely, not replaced by a space
remove_separators(s) == SelectSeq(s, LAMBDA c : c \notin SeparatorChars)

\* 4. runs of whitespace collapse to one space; leading and trailing whitespace goes
RECURSIVE DropLeadingSpace(_)
DropLeadingSpace(s) ==
    IF s # <<>> /\ IsSpace(s[1]) THEN DropLeadingSpace(Tail(s)) ELSE s

RECURSIVE CollapseRuns(_)
CollapseRuns(s) ==
    IF s = <<>> THEN <<>>
    ELSE IF IsSpace(s[1])
         THEN LET rest == DropLeadingSpace(s)
              IN  IF rest = <<>> THEN <<>> ELSE <<" ">> \o CollapseRuns(rest)
         ELSE <<s[1]>> \o CollapseRuns(Tail(s))

collapse_whitespace(s) == CollapseRuns(DropLeadingSpace(s))

\* 5. lowercase
lowercase(s) == [i \in DOMAIN s |-> ToLowerChar(s[i])]

\* a plausible variant: whitespace is collapsed before the separators are removed
format_search_string_collapse_first(raw) ==
    lowercase(remove_separators(collapse_whitespace(
        split_letters_digits(split_camel_case(raw)))))

format_search_string(raw) ==
    lowercase(collapse_whitespace(remove_separators(
        split_letters_digits(split_camel_case(raw)))))

(***************************************************************************)
(* The normalizer's inputs                                                 *)
(***************************************************************************)
MaxLen == 4
NormAlphabet == {"a", "B", "1", ",", ";", " "}
StringsUpTo(A, n) == UNION {[1..k -> A] : k \in 0..n}

MilkExample ==
    <<"M","i","l","k","2","G","o",","," ",
      "C","h","o","c","o","l","a","t","e",";","B","a","r">>
CocaColaExample ==
    <<"C","o","c","a"," ","C","o","l","a"," ","5","0","0","m","l">>
NormExamples ==
    { MilkExample, CocaColaExample,
      <<"M","i","l","k","C","h","o","c","o","l","a","t","e">>,
      <<"5","0","0","m","l">> }
NormInputs == StringsUpTo(NormAlphabet, MaxLen) \cup NormExamples


(***************************************************************************)
(* Optional values: a dict key that may be missing, os.getenv's None       *)
(***************************************************************************)
NoInt == [has |-> FALSE, val |-> 0]
NoStr == [has |-> FALSE, val |-> <<>>]
Some(v) == [has |-> TRUE, val |-> v]

Min(a, b) == IF a <= b THEN a ELSE b
Reverse(s) == [i \in DOMAIN s |-> s[Len(s) + 1 - i]]
\* str.strip()
Strip(s) == Reverse(DropLeadingSpace(Reverse(DropLeadingSpace(s))))

(***************************************************************************)
(* Candidate Name Extractor: extract_product_names, compute_given_name     *)
(***************************************************************************)
NameAbsent == [tag |-> "absent", val |-> <<>>]
NameSingle(s) == [tag |-> "single", val |-> <<s>>]
NameMultiple(ss) == [tag |-> "multiple", val |-> ss]
\* a name field of a type the extractor cannot read (a number, a nested mapping)
NameMalformed == [tag |-> "malformed", val |-> <<>>]

UnknownName == <<"U","n","k","n","o","w","n">>

\* the stripped, non-empty entries of ss, each kept at its first occurrence
RECURSIVE DedupNames(_, _)
DedupNames(ss, seen) ==
    IF ss = <<>> THEN <<>>
    ELSE LET n == Strip(ss[1])
         IN  IF n = <<>> \/ n \in seen
             THEN DedupNames(Tail(ss), seen)
             ELSE <<n>> \o DedupNames(Tail(ss), seen \cup {n})

extract_product_names(name_field) ==
    IF name_field.tag \in {"single", "multiple"}
    THEN DedupNames(name_field.val, {})
    ELSE <<>>

\* total: a record without a usable name gets the sentinel
compute_given_name(record) ==
    LET names == extract_product_names(record.product_name)
    IN  IF names = <<>> THEN UnknownName ELSE names[1]

(***************************************************************************)
(* Fuzzy Scorer: compute_rapidfuzz_score                                   *)
(***************************************************************************)
\* `measured` is what the string comparison yields for this record; a record
\* whose fields cannot be read makes the computation fail, which yields 0
compute_rapidfuzz_score(raw_query, record, measured) ==
    IF record.product_name.tag = "malformed" THEN 0 ELSE measured

(***************************************************************************)
(* apply_rapidfuzz_scoring                                                 *)
(***************************************************************************)
\* x.get('rapidfuzz_score', 0)
SortKey(hp, id) ==
    IF hp[id].rapidfuzz_score.has THEN hp[id].rapidfuzz_score.val ELSE 0

\* x placed before the first entry with an equal key: equal keys end up reversed
InsertBeforeEqual(sorted, x, hp) ==
    LET before == SelectSeq(sorted, LAMBDA y : SortKey(hp, y) > SortKey(hp, x))
        after  == SelectSeq(sorted, LAMBDA y : SortKey(hp, y) <= SortKey(hp, x))
    IN  before \o <<x>> \o after

\* x placed after every entry whose key is at least x's
InsertAfterEqual(sorted, x, hp) ==
    LET before == SelectSeq(sorted, LAMBDA y : SortKey(hp, y) >= SortKey(hp, x))
        after  == SelectSeq(sorted, LAMBDA y : SortKey(hp, y) < SortKey(hp, x))
    IN  before \o <<x>> \o after

RECURSIVE sort_reversing_ties(_, _)
sort_reversing_ties(records, hp) ==
    IF records = <<>> THEN <<>>
    ELSE InsertBeforeEqual(
             sort_reversing_ties(SubSeq(records, 1, Len(records) - 1), hp),
             records[Len(records)], hp)

\* results.sort(key=..., reverse=True): list.sort is stable, also with reverse=True
RECURSIVE sort_by_rapidfuzz_desc(_, _)
sort_by_rapidfuzz_desc(records, hp) ==
    IF records = <<>> THEN <<>>
    ELSE InsertAfterEqual(
             sort_by_rapidfuzz_desc(SubSeq(records, 1, Len(records) - 1), hp),
             records[Len(records)], hp)

\* a plausible variant: records that scored zero are left out of the ranking
apply_rapidfuzz_scoring_drops_zero(raw_query, records, hp, measured) ==
    LET scored ==
            [id \in DOMAIN hp |->
                IF id \in Range(records)
                THEN [hp[id] EXCEPT !.rapidfuzz_score =
                         Some(compute_rapidfuzz_score(raw_query, hp[id],
                                                      measured[id]))]
                ELSE hp[id]]
        kept == SelectSeq(records, LAMBDA id : SortKey(scored, id) > 0)
    IN  [results |-> sort_by_rapidfuzz_desc(kept, scored), heap |-> scored]

\* a plausible variant: the similarity is stored under the backend's 'score' key
apply_rapidfuzz_scoring_writes_score(raw_query, records, hp, measured) ==
    LET scored ==
            [id \in DOMAIN hp |->
                IF id \in Range(records)
                THEN [hp[id] EXCEPT !.score =
                         Some(compute_rapidfuzz_score(raw_query, hp[id],
                                                      measured[id]))]
                ELSE hp[id]]
    IN  [results |-> sort_by_rapidfuzz_desc(records, scored), heap |-> scored]

\* the records are scored in place (the dicts are shared with every list that
\* holds them); the list is sorted and returned
apply_rapidfuzz_scoring(raw_query, records, hp, measured) ==
    IF records = <<>>
    THEN [results |-> records, heap |-> hp]
    ELSE LET scored ==
                 [id \in DOMAIN hp |->
                     IF id \in Range(records)
                     THEN [hp[id] EXCEPT !.rapidfuzz_score =
                              Some(compute_rapidfuzz_score(raw_query, hp[id],
                                                           measured[id]))]
                     ELSE hp[id]]
         IN  [results |-> sort_by_rapidfuzz_desc(records, scored), heap |-> scored]


(***************************************************************************)
(* The collaborators' answers on one run                                   *)
(***************************************************************************)
MaxResults == 3
MaxVector == 1
Limit == 50
TopK == 10

LexScores == {1, 2}
FuzzyScores == {0, 50, 100}
NameFields ==
    { NameAbsent,
      NameMultiple(<< <<>>, <<"n", " ">>, <<"n">>, <<"m">> >>),
      NameMalformed }

\* a document as the lexical backend returns it
BackendDocs == [score : {NoInt} \cup {Some(v) : v \in LexScores},
                product_name : NameFields]

ScoreOrZero(d) == IF d.score.has THEN d.score.val ELSE 0

\* .sort([("score", {"$meta": "textScore"})]).limit(50): at most Limit documents,
\* by non-increasing text score
BackendAnswers ==
    {ds \in UNION {[1..n -> BackendDocs] : n \in 0..Min(MaxResults, Limit)} :
        \A i \in DOMAIN ds : \A j \in DOMAIN ds :
            i < j => ScoreOrZero(ds[i]) >= ScoreOrZero(ds[j])}

VectorHits == UNION {[1..n -> {"hit"}] : n \in 0..MaxVector}

Queries == { <<>>, <<" ">>, <<" ", " ">>, <<"a", "B", ",", " ", "1">> }
MongoUris == { NoStr, Some(<<>>), Some(<<"m","o","n","g","o","d","b",":">>) }

(***************************************************************************)
(* search_products_direct                                                  *)
(***************************************************************************)
\* a plausible variant: the failure of the query is not caught
search_products_direct_uncaught(find_raises, docs) ==
    [raised |-> find_raises, value |-> IF find_raises THEN <<>> ELSE docs]

\* create_index's failure is swallowed; a failing find is reported and yields []
search_products_direct(find_raises, docs) ==
    [raised |-> FALSE, value |-> IF find_raises THEN <<>> ELSE docs]

(***************************************************************************)
(* search_pinecone                                                         *)
(***************************************************************************)
\* a failing vector search yields no results; at most top_k hits
search_pinecone(raw_query, top_k, fails, hits) ==
    IF fails THEN <<>> ELSE SubSeq(hits, 1, Min(Len(hits), top_k))

(***************************************************************************)
(* search_products, step by step                                           *)
(***************************************************************************)
ErrorValue(msg) == [error |-> msg]

\* for result in results: result['given_name'] = compute_given_name(result)
add_given_names(records, hp) ==
    [id \in DOMAIN hp |->
        IF id \in Range(records)
        THEN [hp[id] EXCEPT !.given_name = Some(compute_given_name(hp[id]))]
        ELSE hp[id]]

\* a plausible variant: the list is re-sorted without being copied first
rescore_in_place(raw_query, direct, hp, measured) ==
    LET out == apply_rapidfuzz_scoring(raw_query, direct, hp, measured)
    IN  [direct |-> out.results, ranked |-> out.results, heap |-> out.heap]

\* apply_rapidfuzz_scoring(search_string, direct_results.copy()): the copy is
\* shallow, so the records are shared and the original list keeps its order
rescore_copy(raw_query, direct, hp, measured) ==
    LET out == apply_rapidfuzz_scoring(raw_query, direct, hp, measured)
    IN  [direct |-> direct, ranked |-> out.results, heap |-> out.heap]

Bundle ==
    [ timestamp |-> "now",
      input_string |-> search_string,
      formatted_string |-> formatted_string,
      direct_search |-> [count |-> Len(direct_results), results |-> direct_results],
      rapidfuzz_search |-> [count |-> Len(direct_results_with_rapidfuzz),
                            results |-> direct_results_with_rapidfuzz],
      pinecone_search |-> [count |-> Len(pinecone_results),
                           results |-> pinecone_results] ]

IsError(r) == "error" \in DOMAIN r
IsBundle(r) == "direct_search" \in DOMAIN r


(***************************************************************************)
(* Initial states                                                          *)
(***************************************************************************)
NormIdle ==
    /\ normPc = "idle"
    /\ normIn = <<>>
    /\ normOut = <<>>
    /\ normOut2 = <<>>

RunFresh ==
    /\ exitCode = NoInt
    /\ calls = <<>>
    /\ clientCreated = FALSE
    /\ clientClosed = FALSE
    /\ formatted_string = <<>>
    /\ heap = <<>>
    /\ direct_results = <<>>
    /\ direct_results_with_rapidfuzz = <<>>
    /\ pinecone_results = <<>>
    /\ results = <<>>
    /\ backendDocs = <<>>
    /\ connectOutcome = "none"
    /\ lexicalFailed = FALSE
    /\ vectorFailed = FALSE
    /\ errorCause = "none"

Init ==
    /\ NormIdle
    /\ RunFresh
    /\ pc = "main"
    /\ search_string \in Queries
    /\ mongo_uri \in MongoUris
    /\ pymongoInstalled \in BOOLEAN

(***************************************************************************)
(* main, up to the call of search_products                                 *)
(***************************************************************************)
\* a plausible variant: only the empty string is rejected
query_is_empty(s) == s = <<>>

\* not args.search_string.strip()
query_is_blank(s) == Strip(s) = <<>>

\* if not args.search_string.strip(): sys.exit(1)
MainValidate ==
    /\ pc = "main"
    /\ IF query_is_blank(search_string)
       THEN /\ exitCode' = Some(1)
            /\ pc' = "exited"
       ELSE /\ pc' = "sp_import"
            /\ UNCHANGED exitCode
    /\ UNCHANGED <<search_string, calls, clientCreated, clientClosed,
                   formatted_string, heap, direct_results,
                   direct_results_with_rapidfuzz, pinecone_results, results>>
    /\ UNCHANGED <<normVars, envVars, histVars>>

(***************************************************************************)
(* search_products                                                         *)
(***************************************************************************)
\* an exception that reaches `except Exception` (or `except ImportError`)
ReturnError(msg, cause) ==
    /\ results' = ErrorValue(msg)
    /\ errorCause' = cause
    /\ pc' = "main_check"

\* from pymongo import MongoClient
SP_Import ==
    /\ pc = "sp_import"
    /\ IF pymongoInstalled
       THEN /\ pc' = "sp_env"
            /\ UNCHANGED <<results, errorCause>>
       ELSE ReturnError("Required packages not installed", "import")
    /\ UNCHANGED <<search_string, exitCode, calls, clientCreated,
                   clientClosed, formatted_string, heap, direct_results,
                   direct_results_with_rapidfuzz, pinecone_results>>
    /\ UNCHANGED <<normVars, envVars, backendDocs, connectOutcome,
                   lexicalFailed, vectorFailed>>

\* not mongo_uri: None and the empty string
uri_missing(uri) == ~uri.has \/ uri.val = <<>>

\* mongo_uri = os.getenv('MONGO_URI'); if not mongo_uri: return {"error": ...}
SP_GetUri ==
    /\ pc = "sp_env"
    /\ IF uri_missing(mongo_uri)
       THEN ReturnError("MONGO_URI not set", "config")
       ELSE /\ pc' = "sp_connect"
            /\ UNCHANGED <<results, errorCause>>
    /\ UNCHANGED <<search_string, exitCode, calls, clientCreated,
                   clientClosed, formatted_string, heap, direct_results,
                   direct_results_with_rapidfuzz, pinecone_results>>
    /\ UNCHANGED <<normVars, envVars, backendDocs, connectOutcome,
                   lexicalFailed, vectorFailed>>

\* what MongoClient(uri), the ping and get_database can do
ConnectOutcomes ==
    { "ok",
      "client_configuration_error",  \* MongoClient raises ConfigurationError
      "ping_connection_failure",     \* the ping raises ConnectionFailure
      "ping_other_error",            \* the ping raises another error (refused command)
      "no_default_database" }        \* get_database raises ConfigurationError

\* a plausible variant: a failed connection attempt is reported and the search goes on
connect_handler_goes_on(outcome) == "proceed"

\* which handler an outcome of the connection attempt reaches:
\* except (ConnectionFailure, ConfigurationError), or the outer except Exception
connect_handler(outcome) ==
    CASE outcome = "ok" -> "proceed"
      [] outcome = "ping_other_error" -> "except Exception"
      [] OTHER -> "except ConnectionFailure"

\* client = MongoClient(mongo_uri); client.admin.command('ping'); ...
SP_Connect ==
    /\ pc = "sp_connect"
    /\ \E outcome \in ConnectOutcomes :
          /\ calls' = calls \o (IF outcome = "client_configuration_error"
                                THEN <<"MongoClient">>
                                ELSE <<"MongoClient", "ping">>)
          /\ clientCreated' = (outcome # "client_configuration_error")
          /\ connectOutcome' = outcome
          /\ CASE connect_handler(outcome) = "proceed" ->
                    /\ pc' = "sp_format"
                    /\ UNCHANGED <<results, errorCause>>
               [] connect_handler(outcome) = "except Exception" ->
                    ReturnError("Error during search", "connection")
               [] OTHER ->
                    ReturnError("MongoDB connection failed", "connection")
    /\ UNCHANGED <<search_string, exitCode, clientClosed, formatted_string,
                   heap, direct_results, direct_results_with_rapidfuzz,
                   pinecone_results>>
    /\ UNCHANGED <<normVars, envVars, backendDocs, lexicalFailed,
                   vectorFailed>>

\* formatted_string = format_search_string(search_string)
SP_Format ==
    /\ pc = "sp_format"
    /\ formatted_string' = format_search_string(search_string)
    /\ pc' = "sp_direct"
    /\ UNCHANGED <<search_string, exitCode, calls, clientCreated,
                   clientClosed, heap, direct_results,
                   direct_results_with_rapidfuzz, pinecone_results, results>>
    /\ UNCHANGED <<normVars, envVars, histVars>>

\* a dict as search_products holds it: the backend's fields, no derived field yet
AsRecord(doc) ==
    [score |-> doc.score, product_name |-> doc.product_name,
     given_name |-> NoStr, rapidfuzz_score |-> NoInt]

\* direct_results = search_products_direct(collection, search_string, formatted_string)
SP_DirectSearch ==
    /\ pc = "sp_direct"
    /\ \E find_raises \in BOOLEAN : \E docs \in BackendAnswers :
          LET r == search_products_direct(find_raises, docs)
          IN  /\ find_raises => docs = <<>>
              /\ calls' = calls \o <<"create_index", "find">>
              /\ lexicalFailed' = find_raises
              /\ backendDocs' = docs
              /\ IF r.raised
                 THEN /\ ReturnError("Error during search", "lexical")
                      /\ UNCHANGED <<heap, direct_results>>
                 ELSE /\ heap' = [i \in DOMAIN r.value |-> AsRecord(r.value[i])]
                      /\ direct_results' = [i \in DOMAIN r.value |-> i]
                      /\ pc' = "sp_enrich_direct"
                      /\ UNCHANGED <<results, errorCause>>
    /\ UNCHANGED <<search_string, exitCode, clientCreated, clientClosed,
                   formatted_string, direct_results_with_rapidfuzz,
                   pinecone_results>>
    /\ UNCHANGED <<normVars, envVars, connectOutcome, vectorFailed>>

\* for result in direct_results: result['given_name'] = compute_given_name(result)
SP_EnrichDirect ==
    /\ pc = "sp_enrich_direct"
    /\ heap' = add_given_names(direct_results, heap)
    /\ pc' = "sp_rescore"
    /\ UNCHANGED <<search_string, exitCode, calls, clientCreated,
                   clientClosed, formatted_string, direct_results,
                   direct_results_with_rapidfuzz, pinecone_results, results>>
    /\ UNCHANGED <<normVars, envVars, histVars>>

\* direct_results_with_rapidfuzz =
\*     apply_rapidfuzz_scoring(search_string, direct_results.copy())
SP_Rescore ==
    /\ pc = "sp_rescore"
    /\ \E measured \in [DOMAIN heap -> FuzzyScores] :
          LET out == rescore_copy(search_string, direct_results, heap, measured)
          IN  /\ heap' = out.heap
              /\ direct_results' = out.direct
              /\ direct_results_with_rapidfuzz' = out.ranked
    /\ pc' = "sp_enrich_rapidfuzz"
    /\ UNCHANGED <<search_string, exitCode, calls, clientCreated,
                   clientClosed, formatted_string, pinecone_results, results>>
    /\ UNCHANGED <<normVars, envVars, histVars>>

\* for result in direct_results_with_rapidfuzz: result['given_name'] = ...
SP_EnrichRapidfuzz ==
    /\ pc = "sp_enrich_rapidfuzz"
    /\ heap' = add_given_names(direct_results_with_rapidfuzz, heap)
    /\ pc' = "sp_pinecone"
    /\ UNCHANGED <<search_string, exitCode, calls, clientCreated,
                   clientClosed, formatted_string, direct_results,
                   direct_results_with_rapidfuzz, pinecone_results, results>>
    /\ UNCHANGED <<normVars, envVars, histVars>>

\* pinecone_results = search_pinecone(search_string, top_k=10)
SP_Pinecone ==
    /\ pc = "sp_pinecone"
    /\ \E fails \in BOOLEAN : \E hits \in VectorHits :
          /\ fails => hits = <<>>
          /\ vectorFailed' = fails
          /\ pinecone_results' = search_pinecone(search_string, TopK, fails, hits)
    /\ calls' = calls \o <<"search_pinecone">>
    /\ pc' = "sp_return"
    /\ UNCHANGED <<search_string, exitCode, clientCreated, clientClosed,
                   formatted_string, heap, direct_results,
                   direct_results_with_rapidfuzz, results>>
    /\ UNCHANGED <<normVars, envVars, backendDocs, connectOutcome,
                   lexicalFailed, errorCause>>

\* results = {...}; client.close(); return results
SP_Return ==
    /\ pc = "sp_return"
    /\ results' = Bundle
    /\ clientClosed' = TRUE
    /\ calls' = calls \o <<"close">>
    /\ pc' = "main_check"
    /\ UNCHANGED <<search_string, exitCode, clientCreated, formatted_string,
                   heap, direct_results, direct_results_with_rapidfuzz,
                   pinecone_results>>
    /\ UNCHANGED <<normVars, envVars, histVars>>

(***************************************************************************)
(* main, after search_products returned                                    *)
(***************************************************************************)
\* if "error" in results: sys.exit(1)
MainCheckError ==
    /\ pc = "main_check"
    /\ IF IsError(results)
       THEN /\ exitCode' = Some(1)
            /\ pc' = "exited"
       ELSE /\ pc' = "main_save"
            /\ UNCHANGED exitCode
    /\ UNCHANGED <<search_string, calls, clientCreated, clientClosed,
                   formatted_string, heap, direct_results,
                   direct_results_with_rapidfuzz, pinecone_results, results>>
    /\ UNCHANGED <<normVars, envVars, histVars>>

\* output_file = save_results(results, args.output), whose failure is reported
\* and changes nothing; the summary is printed and main ends normally
MainSaveAndReport ==
    /\ pc = "main_save"
    /\ exitCode' = Some(0)
    /\ pc' = "exited"
    /\ UNCHANGED <<search_string, calls, clientCreated, clientClosed,
                   formatted_string, heap, direct_results,
                   direct_results_with_rapidfuzz, pinecone_results, results>>
    /\ UNCHANGED <<normVars, envVars, histVars>>

Next ==
    \/ MainValidate
    \/ SP_Import
    \/ SP_GetUri
    \/ SP_Connect
    \/ SP_Format
    \/ SP_DirectSearch
    \/ SP_EnrichDirect
    \/ SP_Rescore
    \/ SP_EnrichRapidfuzz
    \/ SP_Pinecone
    \/ SP_Return
    \/ MainCheckError
    \/ MainSaveAndReport

Spec == Init /\ [][Next]_vars

(***************************************************************************)
(* The normalizer on its own: every bounded string, normalized twice       *)
(***************************************************************************)
NormInit ==
    /\ normPc = "ready"
    /\ normIn \in NormInputs
    /\ normOut = <<>>
    /\ normOut2 = <<>>
    /\ RunFresh
    /\ pc = "idle"
    /\ search_string = <<>>
    /\ mongo_uri = NoStr
    /\ pymongoInstalled = FALSE

NormApply ==
    /\ normPc = "ready"
    /\ normOut' = format_search_string(normIn)
    /\ normPc' = "normalized"
    /\ UNCHANGED <<normIn, normOut2, envVars, runVars, histVars>>

NormReapply ==
    /\ normPc = "normalized"
    /\ normOut2' = format_search_string(normOut)
    /\ normPc' = "renormalized"
    /\ UNCHANGED <<normIn, normOut, envVars, runVars, histVars>>

NormNext == NormApply \/ NormReapply

NormSpec == NormInit /\ [][NormNext]_vars


(***************************************************************************)
(* Vocabulary of the properties                                            *)
(***************************************************************************)
\* search_products has returned
Returned == DOMAIN results # {}
\* the query is empty or holds whitespace only
BlankQuery == \A i \in DOMAIN search_string : IsSpace(search_string[i])
\* MONGO_URI is unset or empty
MongoUriMissing == ~mongo_uri.has \/ Len(mongo_uri.val) = 0
Issued(call) == call \in Range(calls)
\* position of record id in list s
PosIn(s, id) == CHOOSE i \in DOMAIN s : s[i] = id
IsPermutationOf(s, u) ==
    /\ Len(s) = Len(u)
    /\ Range(s) = Range(u)
    /\ Cardinality(Range(s)) = Len(s)
\* s is ordered by non-increasing similarity score
RankedDescending(s) ==
    \A i \in DOMAIN s : \A j \in DOMAIN s :
        i < j => heap[s[i]].rapidfuzz_score.val >= heap[s[j]].rapidfuzz_score.val
Identities(n) == [i \in 1..n |-> i]
\* apply_rapidfuzz_scoring has returned its list
Rescored ==
    pc \in {"sp_enrich_rapidfuzz", "sp_pinecone", "sp_return"} \/ IsBundle(results)

(***************************************************************************)
(* C1: for an empty or whitespace-only query main ends with a non-zero    *)
(* exit status and no backend interaction occurs on that run: main is     *)
(* either about to reject the query or has exited with a non-zero status, *)
(* and no connection, ping, lexical query or vector search was issued.    *)
(***************************************************************************)
C1_BlankQueryRejectedWithoutBackend ==
    BlankQuery =>
        /\ calls = <<>>
        /\ ~clientCreated
        /\ pc \in {"main", "exited"}
        /\ pc = "main" => ENABLED MainValidate
        /\ pc = "exited" => exitCode.has /\ exitCode.val # 0

C1_Witness ==
    /\ BlankQuery
    /\ search_string # <<>>
    /\ pc = "exited"
    /\ exitCode = Some(1)

C3_ConfigOrConnectionErrorIsTerminal ==
    /\ MongoUriMissing =>
          /\ calls = <<>>
          /\ pc \notin {"sp_connect", "sp_format", "sp_direct", "sp_enrich_direct",
                        "sp_rescore", "sp_enrich_rapidfuzz", "sp_pinecone",
                        "sp_return", "main_save"}
          /\ Returned => DOMAIN results = {"error"}
    /\ connectOutcome \notin {"none", "ok"} =>
          /\ Returned
          /\ DOMAIN results = {"error"}
          /\ Range(calls) \subseteq {"MongoClient", "ping"}
          /\ pc \in {"main_check", "exited"}

C3_Witness ==
    /\ connectOutcome = "ping_connection_failure"
    /\ pc = "exited"
    /\ DOMAIN results = {"error"}

C5_LexicalListUnaffectedByReranking ==
    Returned /\ IsBundle(results) =>
        /\ results.direct_search.results = Identities(Len(backendDocs))
        /\ \A i \in DOMAIN backendDocs :
              /\ heap[i].score = backendDocs[i].score
              /\ heap[i].product_name.tag = backendDocs[i].product_name.tag
        /\ IsPermutationOf(results.rapidfuzz_search.results,
                           results.direct_search.results)
        /\ RankedDescending(results.rapidfuzz_search.results)
        /\ results.direct_search.count = Len(results.direct_search.results)
        /\ results.rapidfuzz_search.count = Len(results.rapidfuzz_search.results)
        /\ results.direct_search.count = results.rapidfuzz_search.count

C5_Witness ==
    /\ Returned
    /\ IsBundle(results)
    /\ Len(results.direct_search.results) >= 2
    /\ results.rapidfuzz_search.results # results.direct_search.results
    /\ results.direct_search.results = Identities(Len(backendDocs))

(***************************************************************************)
(* C6: ranking is stable: of two records with the same similarity score,  *)
(* the one that comes first in the list handed to apply_rapidfuzz_scoring *)
(* comes first in the list it returns.                                    *)
(***************************************************************************)
C6_RankingIsStable ==
    Rescored =>
        \A i \in DOMAIN direct_results : \A j \in DOMAIN direct_results :
            /\ i < j
            /\ heap[direct_results[i]].rapidfuzz_score
                   = heap[direct_results[j]].rapidfuzz_score
            => PosIn(direct_results_with_rapidfuzz, direct_results[i])
                   < PosIn(direct_results_with_rapidfuzz, direct_results[j])

C6_Witness ==
    /\ Rescored
    /\ direct_results_with_rapidfuzz # direct_results
    /\ \E i \in DOMAIN direct_results : \E j \in DOMAIN direct_results :
          /\ i < j
          /\ heap[direct_results[i]].rapidfuzz_score
                 = heap[direct_results[j]].rapidfuzz_score
          /\ heap[direct_results[i]].rapidfuzz_score.val > 0

SeparatorsJoinLetterDigit(s) ==
    \E i \in DOMAIN s : \E j \in DOMAIN s :
        /\ i + 1 < j
        /\ \A k \in (i + 1)..(j - 1) : s[k] \in SeparatorChars
        /\ \/ IsLetter(s[i]) /\ IsDigit(s[j])
           \/ IsDigit(s[i]) /\ IsLetter(s[j])

C9_DerivedFieldsPresentLexicalScoreKept ==
    /\ \A i \in DOMAIN heap : heap[i].score = backendDocs[i].score
    /\ Returned /\ IsBundle(results) =>
          /\ \A i \in DOMAIN results.direct_search.results :
                heap[results.direct_search.results[i]].given_name.has
          /\ \A i \in DOMAIN results.rapidfuzz_search.results :
                /\ heap[results.rapidfuzz_search.results[i]].given_name.has
                /\ heap[results.rapidfuzz_search.results[i]].rapidfuzz_score.has

C9_Witness ==
    /\ Returned
    /\ IsBundle(results)
    /\ \E i \in DOMAIN heap : \E j \in DOMAIN heap :
          /\ ~backendDocs[i].score.has
          /\ ~heap[i].score.has
          /\ heap[i].rapidfuzz_score.val > 0
          /\ backendDocs[j].score.has
          /\ heap[j].score.val # heap[j].rapidfuzz_score.val

(***************************************************************************)
(* C10: whenever search_products created a MongoDB client, the client is  *)
(* closed by the time search_products returns, on every path.             *)
(***************************************************************************)
C10_ClientClosedOnReturn ==
    Returned /\ clientCreated => clientClosed

====
